---- MODULE Spec2Model ----
(***************************************************************************)
(* Cortica: MemoryGraph (src/cortica/memory.py) and MemoryDecay            *)
(* (src/cortica/decay.py).                                                 *)
(*                                                                         *)
(* Numbers.  The code computes in floating point; the model computes the  *)
(* same quantities exactly:                                                *)
(*   - a cosine similarity dot / (norm_a * norm_b + 1e-8) is the record    *)
(*     [num |-> dot, den |-> norm_a * norm_b]; comparisons treat the       *)
(*     epsilon as a positive quantity smaller than any difference of the   *)
(*     integers involved (so cos(a, a) is strictly below 1);               *)
(*   - a strength 0.5 ** (delta / half_life) is the integer                *)
(*     StrengthScale * 2^(-delta / half_life); the clock advances in whole *)
(*     half-lives, so the exponent is an integer and the value is exact;   *)
(*   - a score sim * strength is [num |-> dot * strength, den |-> norm].   *)
(* A threshold is a pair <<p, q>> standing for the rational p / q, q > 0.  *)
(* An absent (None) timestamp argument is written 0: the code tests the    *)
(* argument with `or`, which takes None and 0 alike.                       *)
(* One call reads the clock once: time does not advance inside a call.     *)
(***************************************************************************)
EXTENDS Integers, Sequences, FiniteSets, TLC

\* ---------------------------------------------------------------- bounds
MaxNodes == 3
MaxTicks == 2

\* the inputs tried.  The (content, vector) pairs stored: vectors of integer norm with
\* cos((1,0),(4,3)) = 0.8, cos((4,3),(3,4)) = 0.96, cos((1,0),(3,4)) = 0.6;
\* "a" comes with two vectors, (3,4) with two contents, "" is the empty text
StoreInputs == {<<"", <<1, 0>>>>, <<"a", <<4, 3>>>>, <<"a", <<3, 4>>>>, <<"b", <<3, 4>>>>}
Concepts == {x[1] : x \in StoreInputs}
Queries == {<<1, 0>>}
TraverseQueries == {<<1, 0>>, <<3, 4>>}
Metadatas == {"m"}
HalfLives == {10}
LinkThresholds == {<<7, 10>>}
PruneThresholds == {<<6, 10>>}
TopKs == {-1, 0, 2}
Depths == {0, 2, 3}

VARIABLES nodes, edges, decay, half_life, memory_times, link_threshold, clock, last, forgotten

\* nodes, edges, link_threshold: the fields of MemoryGraph; decay: whether
\* self.decay is a MemoryDecay (TRUE) or None; half_life, memory_times: the
\* fields of that MemoryDecay; clock: time.time(); last: the last call and
\* what it returned; forgotten: history, the contents prune removed that
\* were not stored again since.
vars == <<nodes, edges, decay, half_life, memory_times, link_threshold, clock, last, forgotten>>

\* ------------------------------------------------------- dict primitives
\* A dict whose order does not matter is a function on its key set.
EmptyDict == [k \in {} |-> 0]

Put(d, k, v) == [x \in (DOMAIN d) \cup {k} |-> IF x = k THEN v ELSE d[x]]

\* An inner edge dict is iterated by traverse, so it keeps Python's insertion
\* order: a sequence of [key, weight] items.  Assigning to a present key
\* keeps its position; assigning to a new key appends.
Keys(items) == {items[i].key : i \in 1..Len(items)}

ItemsGet(items, k) == (CHOOSE i \in 1..Len(items) : items[i].key = k)

ItemsSet(items, k, w) ==
    IF k \in Keys(items)
    THEN [i \in 1..Len(items) |-> IF items[i].key = k THEN [key |-> k, weight |-> w] ELSE items[i]]
    ELSE Append(items, [key |-> k, weight |-> w])

ItemsPop(items, ks) == SelectSeq(items, LAMBDA it : it.key \notin ks)

\* self.edges[a][b] = w on a defaultdict(dict)
EdgeAssign(e, a, b, w) == Put(e, a, ItemsSet(IF a \in DOMAIN e THEN e[a] ELSE <<>>, b, w))

\* b in self.edges.get(a, {})
HasEdge(e, a, b) == a \in DOMAIN e /\ b \in Keys(e[a])

\* self.edges[a][b]
EdgeWeight(e, a, b) == e[a][ItemsGet(e[a], b)].weight

\* ------------------------------------------------------ cosine_similarity
Dot(a, b) == a[1] * b[1] + a[2] * b[2]

Sqrt(n) == CHOOSE r \in 0..n : r * r = n

CosineSimilarity(a, b) == [num |-> Dot(a, b), den |-> Sqrt(Dot(a, a)) * Sqrt(Dot(b, b))]

\* sim >= p / q
SimGE(s, t) ==
    \/ s.num * t[2] > t[1] * s.den
    \/ s.num * t[2] = t[1] * s.den /\ t[1] <= 0

\* x < y for two scores (or similarities)
ScoreLess(x, y) ==
    \/ x.num * y.den < y.num * x.den
    \/ x.num * y.den = y.num * x.den /\ x.num < y.num

\* ------------------------------------------------------------ MemoryDecay
StrengthScale == 2^10

RECURSIVE Pow2(_)
Pow2(n) == IF n <= 0 THEN 1 ELSE 2 * Pow2(n - 1)

\* bug: a content already registered keeps its first timestamp (setdefault)
RegisterKeepFirst(mt, concept, timestamp) ==
    IF concept \in DOMAIN mt THEN mt ELSE Put(mt, concept, IF timestamp = 0 THEN clock ELSE timestamp)

\* self.memory_times[concept] = timestamp or time.time()
Register(mt, concept, timestamp) == Put(mt, concept, IF timestamp = 0 THEN clock ELSE timestamp)

\* 0.5 ** (delta / self.half_life), scaled by StrengthScale
Strength(mt, concept, nowArg) ==
    LET now == IF nowArg = 0 THEN clock ELSE nowArg
        lastT == IF concept \in DOMAIN mt THEN mt[concept] ELSE now
        delta == now - lastT
        e == delta \div half_life
    IN  IF e >= 0 THEN StrengthScale \div Pow2(e) ELSE StrengthScale * Pow2(-e)

\* strength < p / q
StrengthBelow(s, t) == s * t[2] < t[1] * StrengthScale

\* bug: the caller's threshold is dropped and should_forget's default 0.1 decides
ShouldForgetDefault(mt, concept, threshold) == StrengthBelow(Strength(mt, concept, 0), <<1, 10>>)

ShouldForget(mt, concept, threshold) == StrengthBelow(Strength(mt, concept, 0), threshold)

\* ------------------------------------------------------------ MemoryGraph
Node(concept, embedding, metadata) ==
    [concept |-> concept, embedding |-> embedding, metadata |-> metadata]

Result(opName, k, out, removed) == [op |-> opName, k |-> k, out |-> out, removed |-> removed]

Init ==
    /\ nodes = <<>>
    /\ edges = EmptyDict
    /\ decay \in BOOLEAN
    /\ half_life \in HalfLives
    /\ memory_times = EmptyDict
    /\ link_threshold \in LinkThresholds
    /\ clock = half_life
    /\ last = Result("init", 0, <<>>, 0)
    /\ forgotten = {}

\* time.time() moves on between two calls
Tick ==
    /\ clock + half_life <= MaxTicks * half_life
    /\ clock' = clock + half_life
    /\ UNCHANGED <<nodes, edges, decay, half_life, memory_times, link_threshold, last, forgotten>>

\* bug: only the new entry's side of an edge is written
RECURSIVE AutoLinkOneWay(_, _, _, _, _)
AutoLinkOneWay(e, ns, concept, embedding, i) ==
    IF i > Len(ns) THEN e
    ELSE LET sim == CosineSimilarity(embedding, ns[i].embedding)
         IN  IF SimGE(sim, link_threshold)
             THEN AutoLinkOneWay(EdgeAssign(e, concept, ns[i].concept, sim), ns, concept, embedding, i + 1)
             ELSE AutoLinkOneWay(e, ns, concept, embedding, i + 1)

\* bug: the loop runs over self.nodes, the entry just appended included
RECURSIVE AutoLinkAll(_, _, _, _, _)
AutoLinkAll(e, ns, concept, embedding, i) ==
    IF i > Len(ns) THEN e
    ELSE LET sim == CosineSimilarity(embedding, ns[i].embedding)
             other == ns[i].concept
         IN  IF SimGE(sim, link_threshold)
             THEN AutoLinkAll(EdgeAssign(EdgeAssign(e, concept, other, sim), other, concept, sim),
                              ns, concept, embedding, i + 1)
             ELSE AutoLinkAll(e, ns, concept, embedding, i + 1)

AutoLinkWithSelf(e, ns, concept, embedding, i) ==
    AutoLinkAll(e, Append(ns, [concept |-> concept, embedding |-> embedding]), concept, embedding, i)

\* the auto-link loop of store over self.nodes[:-1], from position i on
RECURSIVE AutoLink(_, _, _, _, _)
AutoLink(e, ns, concept, embedding, i) ==
    IF i > Len(ns) THEN e
    ELSE LET sim == CosineSimilarity(embedding, ns[i].embedding)
             other == ns[i].concept
         IN  IF SimGE(sim, link_threshold)
             THEN AutoLink(EdgeAssign(EdgeAssign(e, concept, other, sim), other, concept, sim),
                           ns, concept, embedding, i + 1)
             ELSE AutoLink(e, ns, concept, embedding, i + 1)

Store(concept, embedding, metadata) ==
    /\ Len(nodes) < MaxNodes
    /\ nodes' = Append(nodes, Node(concept, embedding, IF metadata = "none" THEN "empty" ELSE metadata))
    /\ memory_times' = IF decay THEN Register(memory_times, concept, 0) ELSE memory_times
    /\ edges' = AutoLink(edges, nodes, concept, embedding, 1)
    /\ last' = Result("store", 0, <<>>, 0)
    /\ forgotten' = forgotten \ {concept}
    /\ UNCHANGED <<decay, half_life, link_threshold, clock>>

\* bug: the loop scores the nodes and never registers the access
RECURSIVE ScoreLoopNoRefresh(_, _, _, _, _)
ScoreLoopNoRefresh(mt, q, use_decay, i, scored) ==
    IF i > Len(nodes) THEN [scored |-> scored, times |-> mt]
    ELSE LET node == nodes[i]
             sim == CosineSimilarity(q, node.embedding)
             strength == IF decay /\ use_decay THEN Strength(mt, node.concept, 0) ELSE StrengthScale
             score == [num |-> sim.num * strength, den |-> sim.den]
             item == [concept |-> node.concept, embedding |-> node.embedding,
                      metadata |-> node.metadata, score |-> score]
         IN  ScoreLoopNoRefresh(mt, q, use_decay, i + 1, Append(scored, item))

\* the scoring loop of retrieve over self.nodes, from position i on; the
\* timestamps mt change as the loop goes
RECURSIVE ScoreLoop(_, _, _, _, _)
ScoreLoop(mt, q, use_decay, i, scored) ==
    IF i > Len(nodes) THEN [scored |-> scored, times |-> mt]
    ELSE LET node == nodes[i]
             sim == CosineSimilarity(q, node.embedding)
             strength == IF decay /\ use_decay THEN Strength(mt, node.concept, 0) ELSE StrengthScale
             score == [num |-> sim.num * strength, den |-> sim.den]
             item == [concept |-> node.concept, embedding |-> node.embedding,
                      metadata |-> node.metadata, score |-> score]
             mt2 == IF decay /\ use_decay THEN Register(mt, node.concept, 0) ELSE mt
         IN  ScoreLoop(mt2, q, use_decay, i + 1, Append(scored, item))

\* bug: an ascending sort reversed afterwards, which turns ties around
RECURSIVE InsertDescUnstable(_, _)
InsertDescUnstable(s, x) ==
    IF s = <<>> THEN <<x>>
    ELSE IF ~ScoreLess(x.score, Head(s).score) THEN <<x>> \o s
    ELSE <<Head(s)>> \o InsertDescUnstable(Tail(s), x)

\* sorted(scored, key=score, reverse=True): a stable sort, so an item goes
\* behind every item whose score is not less than its own
RECURSIVE InsertDesc(_, _)
InsertDesc(s, x) ==
    IF s = <<>> THEN <<x>>
    ELSE IF ScoreLess(Head(s).score, x.score) THEN <<x>> \o s
    ELSE <<Head(s)>> \o InsertDesc(Tail(s), x)

RECURSIVE SortLoop(_, _, _)
SortLoop(s, i, acc) == IF i > Len(s) THEN acc ELSE SortLoop(s, i + 1, InsertDesc(acc, s[i]))

SortedDesc(s) == SortLoop(s, 1, <<>>)

\* s[:k], Python's slice: a negative k counts from the end
Slice(s, k) ==
    IF k >= 0
    THEN SubSeq(s, 1, IF k < Len(s) THEN k ELSE Len(s))
    ELSE SubSeq(s, 1, IF Len(s) + k > 0 THEN Len(s) + k ELSE 0)

Retrieve(q, top_k, use_decay) ==
    LET r == ScoreLoop(memory_times, q, use_decay, 1, <<>>)
    IN  /\ memory_times' = r.times
        /\ last' = Result("retrieve", top_k, Slice(SortedDesc(r.scored), top_k), 0)
        /\ UNCHANGED <<nodes, edges, decay, half_life, link_threshold, clock, forgotten>>

\* bug: only the removed concepts' own dicts are popped, not their entries
\* in the neighbours' dicts
PruneEdgesOuterOnly(e, removed_concepts) == [a \in (DOMAIN e) \ removed_concepts |-> e[a]]

\* bug: a neighbour dict that names a removed concept is emptied as a whole
PruneEdgesDropTouched(e, removed_concepts) ==
    [a \in (DOMAIN e) \ removed_concepts |->
        IF Keys(e[a]) \cap removed_concepts # {} THEN <<>> ELSE e[a]]

\* the edge clean-up of prune
PruneEdges(e, removed_concepts) ==
    [a \in (DOMAIN e) \ removed_concepts |-> ItemsPop(e[a], removed_concepts)]

\* bug: without the guard, a graph that has no decay engine forgets everything
PruneWithoutGuard(threshold) ==
    LET forget(n) == ~decay \/ ShouldForget(memory_times, n.concept, threshold)
        removed_concepts == {nodes[i].concept : i \in {j \in 1..Len(nodes) : forget(nodes[j])}}
    IN  /\ nodes' = SelectSeq(nodes, LAMBDA n : ~forget(n))
        /\ edges' = [a \in (DOMAIN edges) \ removed_concepts |-> ItemsPop(edges[a], removed_concepts)]
        /\ last' = Result("prune", 0, <<>>, Cardinality({i \in 1..Len(nodes) : forget(nodes[i])}))
        /\ forgotten' = forgotten \cup removed_concepts
        /\ UNCHANGED <<decay, half_life, memory_times, link_threshold, clock>>

Prune(threshold) ==
    IF ~decay
    THEN /\ last' = Result("prune", 0, <<>>, 0)
         /\ UNCHANGED <<nodes, edges, decay, half_life, memory_times, link_threshold, clock, forgotten>>
    ELSE LET forget(n) == ShouldForget(memory_times, n.concept, threshold)
             retained == SelectSeq(nodes, LAMBDA n : ~forget(n))
             removed == Cardinality({i \in 1..Len(nodes) : forget(nodes[i])})
             removed_concepts == {nodes[i].concept : i \in {j \in 1..Len(nodes) : forget(nodes[j])}}
         IN  /\ nodes' = retained
             /\ edges' = PruneEdges(edges, removed_concepts)
             /\ last' = Result("prune", 0, <<>>, removed)
             /\ forgotten' = forgotten \cup removed_concepts
             /\ UNCHANGED <<decay, half_life, memory_times, link_threshold, clock>>

\* get_node_by_concept: the first node of that concept, or None
NoneNode == [concept |-> "<None>", embedding |-> <<>>, metadata |-> "<None>"]

GetNodeByConcept(ns, concept) ==
    IF \E i \in 1..Len(ns) : ns[i].concept = concept
    THEN ns[CHOOSE i \in 1..Len(ns) : ns[i].concept = concept /\ \A j \in 1..(i - 1) : ns[j].concept # concept]
    ELSE NoneNode

\* max(self.nodes, key=similarity to the query): the first node of maximal key
StartIndex(q) ==
    CHOOSE i \in 1..Len(nodes) :
        /\ \A j \in 1..Len(nodes) :
              ~ScoreLess(CosineSimilarity(q, nodes[i].embedding), CosineSimilarity(q, nodes[j].embedding))
        /\ \A j \in 1..(i - 1) :
              ScoreLess(CosineSimilarity(q, nodes[j].embedding), CosineSimilarity(q, nodes[i].embedding))

\* score > -1, the initial max_score
AboveMinusOne(x) == x.num + StrengthScale * x.den >= 0

\* bug: the loop does not skip the neighbours already visited
RECURSIVE BestNeighborRevisits(_, _, _, _)
BestNeighborRevisits(items, visited, i, best) ==
    IF i > Len(items) THEN best
    ELSE LET strength == IF decay THEN Strength(memory_times, items[i].key, 0) ELSE StrengthScale
             score == [num |-> items[i].weight.num * strength, den |-> items[i].weight.den]
             better == IF best = <<>> THEN AboveMinusOne(score) ELSE ScoreLess(best[2], score)
         IN  BestNeighborRevisits(items, visited, i + 1, IF better THEN <<items[i].key, score>> ELSE best)

\* the inner loop of traverse over neighbors.items(), from position i on;
\* best is <<>> while next_node is None, else <<next_node, max_score>>
RECURSIVE BestNeighbor(_, _, _, _)
BestNeighbor(items, visited, i, best) ==
    IF i > Len(items) THEN best
    ELSE IF items[i].key \in visited THEN BestNeighbor(items, visited, i + 1, best)
    ELSE LET strength == IF decay THEN Strength(memory_times, items[i].key, 0) ELSE StrengthScale
             score == [num |-> items[i].weight.num * strength, den |-> items[i].weight.den]
             better == IF best = <<>> THEN AboveMinusOne(score) ELSE ScoreLess(best[2], score)
         IN  BestNeighbor(items, visited, i + 1, IF better THEN <<items[i].key, score>> ELSE best)

\* the outer loop of traverse, with `steps` iterations left
RECURSIVE Walk(_, _, _, _)
Walk(current, visited, path, steps) ==
    IF steps <= 0 THEN path
    ELSE LET neighbors == IF current \in DOMAIN edges THEN edges[current] ELSE <<>>
             best == BestNeighbor(neighbors, visited, 1, <<>>)
         IN  IF best = <<>> \/ best[1] = ""
             THEN path
             ELSE Walk(best[1], visited \cup {best[1]}, Append(path, GetNodeByConcept(nodes, best[1])), steps - 1)

TraversePath(q, depth) ==
    IF nodes = <<>> THEN <<>>
    ELSE LET start_node == nodes[StartIndex(q)]
         IN  Walk(start_node.concept, {start_node.concept}, <<start_node>>, depth - 1)

\* bug: the walk reads self.edges[current], which on a defaultdict inserts
\* an empty inner dict for a content that has no edges
TraverseTouchesEdges(q, depth) ==
    LET path == TraversePath(q, depth)
        read == {path[i].concept : i \in {j \in 1..Len(path) : j <= depth - 1}}
    IN  /\ last' = Result("traverse", depth, path, 0)
        /\ edges' = [c \in DOMAIN edges \cup read |-> IF c \in DOMAIN edges THEN edges[c] ELSE <<>>]
        /\ UNCHANGED <<nodes, decay, half_life, memory_times, link_threshold, clock, forgotten>>

Traverse(q, depth) ==
    /\ last' = Result("traverse", depth, TraversePath(q, depth), 0)
    /\ UNCHANGED <<nodes, edges, decay, half_life, memory_times, link_threshold, clock, forgotten>>

Next ==
    \/ Tick
    \/ \E x \in StoreInputs, m \in Metadatas : Store(x[1], x[2], m)
    \/ \E q \in Queries, k \in TopKs, ud \in BOOLEAN : Retrieve(q, k, ud)
    \/ \E t \in PruneThresholds : Prune(t)
    \/ \E q \in TraverseQueries, d \in Depths : Traverse(q, d)

Spec == Init /\ [][Next]_vars

\* ------------------------------------------------- the decay engine alone
\* MemoryDecay called directly, with timestamp and now arguments given by
\* the caller; an argument of 0 stands for the number 0 and for a missing
\* argument alike, as both are falsy in `x or time.time()`
Timestamps == {k * h : k \in 0..MaxTicks, h \in HalfLives}

DecayInit == Init /\ decay

RegisterCall(concept, timestamp) ==
    /\ memory_times' = Register(memory_times, concept, timestamp)
    /\ last' = Result("register", timestamp, <<concept>>, 0)
    /\ UNCHANGED <<nodes, edges, decay, half_life, link_threshold, clock, forgotten>>

\* a call of strength as its caller sees it: the value, or the exception
\* that the division by self.half_life raises when half_life is 0
StrengthOrError(mt, concept, now) ==
    IF half_life = 0
    THEN [error |-> "ZeroDivisionError", value |-> 0]
    ELSE [error |-> "", value |-> Strength(mt, concept, now)]

StrengthCall(concept, now) ==
    /\ last' = Result("strength", now, <<concept, StrengthOrError(memory_times, concept, now)>>, 0)
    /\ UNCHANGED <<nodes, edges, decay, half_life, memory_times, link_threshold, clock, forgotten>>

DecayNext ==
    \/ Tick
    \/ \E c \in Concepts, ts \in Timestamps : RegisterCall(c, ts)
    \/ \E c \in Concepts, now \in Timestamps : StrengthCall(c, now)

DecaySpec == DecayInit /\ [][DecayNext]_vars

\* ------------------------------------------- construction with any half-life
\* MemoryDecay(half_life=h) and MemoryGraph(use_decay=True, decay_half_life=h)
\* store the half-life they are given, whatever its sign
ConfigHalfLives == {k * h : k \in {-1, 0, 1}, h \in HalfLives}

ConfigInit ==
    /\ nodes = <<>>
    /\ edges = EmptyDict
    /\ decay = TRUE
    /\ half_life \in ConfigHalfLives
    /\ memory_times = EmptyDict
    /\ link_threshold \in LinkThresholds
    /\ clock \in Timestamps \ {0}
    /\ last = Result("init", 0, <<>>, 0)
    /\ forgotten = {}

ConfigSpec == ConfigInit /\ [][DecayNext]_vars

\* ------------------------------------------------------------------ Cortex
\* Cortex (src/cortica/cortex.py) over its own MemoryGraph(), which is built
\* with the defaults: decay disabled, link threshold 0.7.  The graph is the
\* public attribute self.memory, so entries can also be stored on it directly.

\* the embedder the caller supplies: one vector for a text
EmbedQuery(text) ==
    CASE text = "" -> <<1, 0>>
      [] text = "a" -> <<4, 3>>
      [] OTHER -> <<3, 4>>

\* the parameters of MemoryGraph.store, and the keywords remember passes
StoreParameters == {"concept", "embedding", "metadata"}

RememberKeywords == {"memory_text", "embedding", "metadata"}

\* what a dict offers to attribute access (its methods): retrieve returns dicts
DictAttributes == {"get", "items", "keys", "values", "update", "pop"}

\* the outcome of a Cortex call: its return value, or the exception it raised
CortexResult(opName, k, out, exception) ==
    [op |-> opName, k |-> k, out |-> out, removed |-> 0, error |-> exception]

CortexInit == Init /\ ~decay

Remember(text) ==
    LET embedding == EmbedQuery(text)
    IN  IF RememberKeywords \subseteq StoreParameters
        THEN /\ Len(nodes) < MaxNodes
             /\ nodes' = Append(nodes, Node(text, embedding, text))
             /\ memory_times' = IF decay THEN Register(memory_times, text, 0) ELSE memory_times
             /\ edges' = AutoLink(edges, nodes, text, embedding, 1)
             /\ last' = CortexResult("remember", 0, <<text>>, "")
             /\ forgotten' = forgotten \ {text}
             /\ UNCHANGED <<decay, half_life, link_threshold, clock>>
        ELSE /\ last' = CortexResult("remember", 0, <<text>>, "TypeError")
             /\ UNCHANGED <<nodes, edges, decay, half_life, memory_times, link_threshold, clock, forgotten>>

Recall(query, top_k) ==
    LET r == ScoreLoop(memory_times, EmbedQuery(query), TRUE, 1, <<>>)
        results == Slice(SortedDesc(r.scored), top_k)
    IN  /\ memory_times' = r.times
        /\ last' = IF results = <<>> \/ "metadata" \in DictAttributes
                   THEN CortexResult("recall", top_k, [i \in 1..Len(results) |-> results[i].metadata], "")
                   ELSE CortexResult("recall", top_k, <<>>, "AttributeError")
        /\ UNCHANGED <<nodes, edges, decay, half_life, link_threshold, clock, forgotten>>

CortexNext ==
    \/ Tick
    \/ \E x \in StoreInputs, m \in Metadatas : Store(x[1], x[2], m)
    \/ \E text \in Concepts : Remember(text)
    \/ \E query \in Concepts, k \in TopKs : Recall(query, k)

CortexSpec == CortexInit /\ [][CortexNext]_vars

\* ------------------------------------------------------------------ claims
NodeConcepts(ns) == {ns[i].concept : i \in 1..Len(ns)}

\* the strength the specification defines: 0.5 ^ (elapsed / half_life), and
\* 1.0 for an identity that was never registered
SpecStrength(concept) ==
    IF concept \in DOMAIN memory_times
    THEN StrengthScale \div Pow2((clock - memory_times[concept]) \div half_life)
    ELSE StrengthScale

ScoreEq(x, y) == ~ScoreLess(x, y) /\ ~ScoreLess(y, x)

\* C1: in every reachable state every key of the adjacency map, outer and
\* inner, is the content of an entry that is in the entry list.
C1_NoDanglingEdges ==
    \A a \in DOMAIN edges :
        /\ a \in NodeConcepts(nodes)
        /\ Keys(edges[a]) \subseteq NodeConcepts(nodes)

\* a prune has removed an entry that had edges: a neighbour's dict was emptied
C1_Witness ==
    /\ last.op = "prune"
    /\ last.removed > 0
    /\ \E a \in DOMAIN edges : edges[a] = <<>>

\* C2: when prune removes an entry, the decay engine holds no timestamp for
\* its identity afterwards.
C2_PruneDropsTimestamps ==
    [][\A t \in PruneThresholds :
         (decay /\ Prune(t)) =>
             \A c \in NodeConcepts(nodes) \ NodeConcepts(nodes') : c \notin DOMAIN memory_times'
      ]_vars

\* C3: with decay enabled prune removes exactly the entries whose strength is
\* below the threshold, keeps the others in order and returns the number
\* removed; and a retrieve (a step that is not a tick of the clock and ends
\* with retrieve as the last call) never returns a content that prune
\* removed and that was not stored again.
C3_PruneRemovesExactlyWeak ==
    [][/\ \A t \in PruneThresholds :
            (decay /\ Prune(t)) =>
                LET weak(n) == SpecStrength(n.concept) * t[2] < t[1] * StrengthScale
                IN  /\ nodes' = SelectSeq(nodes, LAMBDA n : ~weak(n))
                    /\ last'.removed = Cardinality({i \in 1..Len(nodes) : weak(nodes[i])})
       /\ (last'.op = "retrieve" /\ clock' = clock) =>
                \A i \in 1..Len(last'.out) : last'.out[i].concept \notin forgotten
      ]_vars

\* a prune removed one entry and kept another
C3_Witness ==
    /\ decay
    /\ last.op = "prune"
    /\ last.removed = 1
    /\ Len(nodes) >= 1

\* C4: prune keeps every edge between two retained entries, with its weight,
\* in both directions; it deletes only edges at a removed entry and adds none.
C4_PruneKeepsOtherEdges ==
    [][\A t \in PruneThresholds :
         Prune(t) =>
             LET kept == NodeConcepts(nodes')
                 gone == NodeConcepts(nodes) \ kept
             IN  \A a \in Concepts, b \in Concepts :
                     /\ (a \in kept /\ b \in kept /\ HasEdge(edges, a, b)) =>
                            /\ HasEdge(edges', a, b)
                            /\ EdgeWeight(edges', a, b) = EdgeWeight(edges, a, b)
                     /\ (HasEdge(edges, a, b) /\ ~HasEdge(edges', a, b)) => (a \in gone \/ b \in gone)
                     /\ HasEdge(edges', a, b) => HasEdge(edges, a, b)
      ]_vars

\* a prune removed an entry and an edge between two other entries is there
C4_Witness ==
    /\ last.op = "prune"
    /\ last.removed > 0
    /\ \E a \in Concepts, b \in Concepts : a # b /\ HasEdge(edges, a, b) /\ HasEdge(edges, b, a)

\* C5: on a graph built with decay disabled prune returns 0 and leaves the
\* entry list and the adjacency map as they were.
C5_PruneWithoutDecayIsNoOp ==
    [][\A t \in PruneThresholds :
         (~decay /\ Prune(t)) => (last'.removed = 0 /\ nodes' = nodes /\ edges' = edges)
      ]_vars

\* prune was called on a graph without decay that holds entries and edges
C5_Witness ==
    /\ ~decay
    /\ last.op = "prune"
    /\ Len(nodes) >= 2
    /\ \E a \in DOMAIN edges : edges[a] # <<>>

\* C6 as stated: after store of X, for every entry E stored before, a
\* similarity at or above link_threshold means the edges X->E and E->X are
\* there with that similarity as weight, and a similarity below it means
\* store added no edge between X and E.
C6_StoreLinksEachEntry ==
    [][\A x \in StoreInputs, m \in Metadatas :
         Store(x[1], x[2], m) =>
             \A i \in 1..Len(nodes) :
                 LET E == nodes[i].concept
                     sim == CosineSimilarity(x[2], nodes[i].embedding)
                 IN  IF SimGE(sim, link_threshold)
                     THEN /\ HasEdge(edges', x[1], E) /\ EdgeWeight(edges', x[1], E) = sim
                          /\ HasEdge(edges', E, x[1]) /\ EdgeWeight(edges', E, x[1]) = sim
                     ELSE /\ HasEdge(edges', x[1], E) => HasEdge(edges, x[1], E)
                          /\ HasEdge(edges', E, x[1]) => HasEdge(edges, E, x[1])
      ]_vars

\* C6 amended: edges are keyed by content.  After store of X, for every
\* content c of the entries stored before: if some of them with content c
\* reach link_threshold, the edges X->c and c->X are there, both with the
\* similarity of the last stored of those as weight; if none does, the edges
\* between X and c are as they were before the store.
C6_StoreLinksEachContent ==
    [][\A x \in StoreInputs, m \in Metadatas :
         Store(x[1], x[2], m) =>
             \A c \in NodeConcepts(nodes) :
                 LET above == {i \in 1..Len(nodes) :
                                  /\ nodes[i].concept = c
                                  /\ SimGE(CosineSimilarity(x[2], nodes[i].embedding), link_threshold)}
                 IN  IF above # {}
                     THEN LET j == CHOOSE i \in above : \A i2 \in above : i2 <= i
                              sim == CosineSimilarity(x[2], nodes[j].embedding)
                          IN  /\ HasEdge(edges', x[1], c) /\ EdgeWeight(edges', x[1], c) = sim
                              /\ HasEdge(edges', c, x[1]) /\ EdgeWeight(edges', c, x[1]) = sim
                     ELSE /\ HasEdge(edges', x[1], c) <=> HasEdge(edges, x[1], c)
                          /\ HasEdge(edges', c, x[1]) <=> HasEdge(edges, c, x[1])
                          /\ HasEdge(edges, x[1], c) => EdgeWeight(edges', x[1], c) = EdgeWeight(edges, x[1], c)
                          /\ HasEdge(edges, c, x[1]) => EdgeWeight(edges', c, x[1]) = EdgeWeight(edges, c, x[1])
      ]_vars

\* a store has linked a new entry to a content that two earlier entries
\* share with different vectors
C6_Witness ==
    /\ last.op = "store"
    /\ Len(nodes) = 3
    /\ nodes[1].concept = nodes[2].concept
    /\ nodes[1].embedding # nodes[2].embedding
    /\ nodes[3].concept # nodes[1].concept
    /\ HasEdge(edges, nodes[3].concept, nodes[1].concept)

\* C7: in every reachable state the adjacency map is symmetric: A->B is
\* there iff B->A is, and both carry the same weight.
C7_EdgesSymmetric ==
    \A a \in Concepts, b \in Concepts :
        /\ HasEdge(edges, a, b) <=> HasEdge(edges, b, a)
        /\ HasEdge(edges, a, b) => EdgeWeight(edges, a, b) = EdgeWeight(edges, b, a)

\* three entries are stored and two different contents are linked
C7_Witness ==
    /\ last.op = "store"
    /\ Len(nodes) = 3
    /\ \E a \in Concepts, b \in Concepts : a # b /\ HasEdge(edges, a, b)

\* C8: retrieve(q, top_k=k) returns at most k entries (read as: none for a
\* k below 0, which the claim taken by the letter would forbid outright), in
\* non-increasing order of score, fewer than k only when the graph holds
\* fewer than k, and none on an empty graph.
C8_RetrieveAtMostKSorted ==
    last.op = "retrieve" =>
        /\ Len(last.out) <= (IF last.k > 0 THEN last.k ELSE 0)
        /\ \A i \in 1..Len(last.out), j \in 1..Len(last.out) :
               i < j => ~ScoreLess(last.out[i].score, last.out[j].score)
        /\ Len(last.out) < last.k => Len(nodes) < last.k
        /\ nodes = <<>> => last.out = <<>>

\* C9: retrieve with top_k <= 0 returns an empty sequence.
C9_RetrieveNonPositiveKEmpty ==
    (last.op = "retrieve" /\ last.k <= 0) => last.out = <<>>

\* C10: two entries of equal score come out of retrieve in the order they
\* were stored in: the returned items can be matched one to one with
\* positions of the entry list so that equal scores keep the list's order.
C10_RetrieveTiesByInsertion ==
    last.op = "retrieve" =>
        \E pos \in [1..Len(last.out) -> 1..Len(nodes)] :
            /\ \A p \in 1..Len(last.out) :
                   /\ last.out[p].concept = nodes[pos[p]].concept
                   /\ last.out[p].embedding = nodes[pos[p]].embedding
                   /\ last.out[p].metadata = nodes[pos[p]].metadata
            /\ \A p \in 1..Len(last.out), r \in 1..Len(last.out) :
                   /\ p # r => pos[p] # pos[r]
                   /\ (p < r /\ ScoreEq(last.out[p].score, last.out[r].score)) => pos[p] < pos[r]

\* a retrieve returned two entries of different content and equal score
C10_Witness ==
    /\ last.op = "retrieve"
    /\ Len(last.out) >= 2
    /\ last.out[1].concept # last.out[2].concept
    /\ ScoreEq(last.out[1].score, last.out[2].score)

\* C11: a retrieve with decay enabled and use_decay true sets the timestamp
\* of every stored entry, returned or not, to the time of the call; a
\* retrieve with decay disabled or use_decay false leaves every timestamp
\* as it was.
C11_RetrieveRefreshesAll ==
    [][(last'.op = "retrieve" /\ clock' = clock) =>
          \A q \in Queries, ud \in BOOLEAN :
              Retrieve(q, last'.k, ud) =>
                  IF decay /\ ud
                  THEN \A i \in 1..Len(nodes) :
                           /\ nodes[i].concept \in DOMAIN memory_times'
                           /\ memory_times'[nodes[i].concept] = clock
                  ELSE memory_times' = memory_times]_vars

\* a retrieve with top_k = 2 over three entries that had lost strength: the
\* entry it did not return carries the time of the call as well
C11_Witness ==
    /\ last.op = "retrieve"
    /\ decay
    /\ last.k = 2
    /\ Len(nodes) = 3
    /\ Len(last.out) = 2
    /\ \A i \in 1..2 :
           last.out[i].score.num * 2 = CosineSimilarity(<<1, 0>>, last.out[i].embedding).num * StrengthScale
    /\ \A i \in 1..3 : memory_times[nodes[i].concept] = clock
    /\ \E i \in 1..3 : \A p \in 1..2 : last.out[p].concept # nodes[i].concept

\* C12: the score retrieve reports for an entry is its cosine similarity
\* times its strength as it was before the call refreshed any timestamp,
\* also when several entries share one content: the refresh made during
\* the call raises no score of the same call.
C12_RetrieveScoresBeforeRefresh ==
    [][(last'.op = "retrieve" /\ clock' = clock) =>
          \A q \in Queries, ud \in BOOLEAN :
              Retrieve(q, last'.k, ud) =>
                  \A i \in 1..Len(last'.out) :
                      LET o == last'.out[i]
                          sim == CosineSimilarity(q, o.embedding)
                          before == IF decay /\ ud THEN SpecStrength(o.concept) ELSE StrengthScale
                      IN  o.score = [num |-> sim.num * before, den |-> sim.den]]_vars

\* C13: with decay enabled a traverse refreshes the entries it accesses as
\* retrieve does: when it returns, the timestamp of each entry on the path
\* is the time of the traverse call.
C13_TraverseRefreshesPath ==
    [][(last'.op = "traverse" /\ clock' = clock /\ decay) =>
          \A i \in 1..Len(last'.out) :
              /\ last'.out[i].concept \in DOMAIN memory_times'
              /\ memory_times'[last'.out[i].concept] = clock]_vars

\* C14: the path traverse(query, depth) returns has at most depth elements,
\* for every depth, zero and below included, and is empty on an empty graph.
C14_TraverseAtMostDepth ==
    last.op = "traverse" =>
        /\ Len(last.out) <= last.k
        /\ nodes = <<>> => last.out = <<>>

\* C15: after any sequence of store, retrieve and prune calls the path
\* traverse returns is a simple path over present entries: no content
\* occurs twice on it, every element is an entry of the entry list (never
\* None), and every two consecutive elements are joined by an edge.
C15_TraversePathSimple ==
    last.op = "traverse" =>
        /\ \A i \in 1..Len(last.out), j \in 1..Len(last.out) :
               i # j => last.out[i].concept # last.out[j].concept
        /\ \A i \in 1..Len(last.out) :
               /\ last.out[i] # NoneNode
               /\ \E j \in 1..Len(nodes) : nodes[j] = last.out[i]
        /\ \A i \in 1..(Len(last.out) - 1) :
               HasEdge(edges, last.out[i].concept, last.out[i + 1].concept)

\* a traverse walked over two entries after a prune had removed a third one
C15_Witness ==
    /\ last.op = "traverse"
    /\ Len(last.out) = 2
    /\ forgotten # {}
    /\ last.k = 3

\* C16: each step of traverse moves to the unvisited neighbour of greatest
\* edge weight times freshness (freshness 1.0 with decay disabled), and the
\* walk ends before the path has depth elements only when the current entry
\* has no unvisited neighbour.
C16_TraverseGreedyUntilStuck ==
    last.op = "traverse" =>
        LET out == last.out
            visited(i) == {out[j].concept : j \in 1..i}
            unvisited(i) == {it \in {edges[out[i].concept][p] : p \in 1..Len(edges[out[i].concept])} :
                                it.key \notin visited(i)}
            fresh(c) == IF decay THEN Strength(memory_times, c, 0) ELSE StrengthScale
            score(it) == [num |-> it.weight.num * fresh(it.key), den |-> it.weight.den]
        IN  /\ \A i \in 1..(Len(out) - 1) :
                   /\ out[i].concept \in DOMAIN edges
                   /\ \E it \in unvisited(i) :
                          /\ it.key = out[i + 1].concept
                          /\ \A other \in unvisited(i) : ~ScoreLess(score(it), score(other))
            /\ (out # <<>> /\ Len(out) < last.k) =>
                   (out[Len(out)].concept \in DOMAIN edges => unvisited(Len(out)) = {})

\* C17: register(id, timestamp) sets the last-touched time of id to exactly
\* the given timestamp, 0 included, over any earlier value, so the strength
\* of id at now = timestamp is 1.0; with half_life 10 and a register at 0
\* the strength is 0.5 at now = 10 and 0.25 at now = 20.
C17_RegisterSetsGivenTimestamp ==
    last.op = "register" =>
        LET id == last.out[1]
            timestamp == last.k
        IN  /\ id \in DOMAIN memory_times
            /\ memory_times[id] = timestamp
            /\ timestamp # 0 => Strength(memory_times, id, timestamp) = StrengthScale
            /\ (timestamp = 0 /\ half_life = 10) =>
                   /\ Strength(memory_times, id, 10) * 2 = StrengthScale
                   /\ Strength(memory_times, id, 20) * 4 = StrengthScale

\* C18: for a fixed registration time the strength does not grow with now:
\* strength(id, now1) >= strength(id, now2) whenever now1 <= now2, now1 = 0
\* included.
C18_StrengthNonIncreasing ==
    \A id \in Concepts, now1 \in Timestamps, now2 \in Timestamps :
        now1 <= now2 => Strength(memory_times, id, now1) >= Strength(memory_times, id, now2)

\* C19: the strength of every id, registered at any timestamp or never
\* registered, is within [0, 1] at every now.
C19_StrengthWithinUnit ==
    \A id \in Concepts, now \in Timestamps :
        /\ Strength(memory_times, id, now) >= 0
        /\ Strength(memory_times, id, now) <= StrengthScale

\* C20: the weight of an edge is fixed at creation: as long as the edge
\* between A and B stays in the edge map, no later store, retrieve,
\* traverse or prune call changes its weight.
C20_EdgeWeightFixed ==
    [][\A a \in Concepts, b \in Concepts :
          (a # b /\ HasEdge(edges, a, b) /\ HasEdge(edges', a, b)) =>
              EdgeWeight(edges', a, b) = EdgeWeight(edges, a, b)]_vars

\* C21: a half-life of zero or below is rejected when the decay engine or
\* the memory graph is constructed, before any strength is computed: no
\* constructed engine holds a non-positive half-life, and no strength call
\* ends in an arithmetic error or returns a value outside [0, 1] because of
\* the half-life.
C21_NonPositiveHalfLifeRejected ==
    /\ half_life > 0
    /\ last.op = "strength" =>
           LET id == last.out[1]
               now == last.k
               result == last.out[2]
           IN  /\ result.error = ""
               /\ (now # 0 /\ id \in DOMAIN memory_times /\ memory_times[id] <= now) =>
                      (result.value >= 0 /\ result.value <= StrengthScale)

\* C22: entries are created only by store, destroyed only by prune and
\* never changed in place: a store appends exactly one entry at the end of
\* the entry list and leaves the earlier entries as they were and in their
\* order; a retrieve or a traverse leaves the entry list and the adjacency
\* map unchanged; a prune keeps the entries it retains as they were and in
\* their order.
C22_EntriesOnlyAppendedAndPruned ==
    [][/\ (last'.op = "store" /\ clock' = clock) =>
              /\ Len(nodes') = Len(nodes) + 1
              /\ SubSeq(nodes', 1, Len(nodes)) = nodes
       /\ (last'.op \in {"retrieve", "traverse"} /\ clock' = clock) =>
              /\ nodes' = nodes
              /\ edges' = edges
       /\ (last'.op = "prune" /\ clock' = clock) =>
              nodes' = SelectSeq(nodes, LAMBDA n : n.concept \in NodeConcepts(nodes'))
       /\ Len(nodes') > Len(nodes) => last'.op = "store"
       /\ Len(nodes') < Len(nodes) => last'.op = "prune"
       /\ clock' # clock => nodes' = nodes /\ edges' = edges]_vars

\* a traverse started at an entry that has no edges, in a list of three
\* stored entries of which others are linked
C22_Witness ==
    /\ last.op = "traverse"
    /\ last.k = 3
    /\ Len(nodes) = 3
    /\ Len(last.out) = 1
    /\ last.out[1].concept \notin DOMAIN edges
    /\ DOMAIN edges # {}

\* C23: Cortex.remember(text) completes without error and stores the text
\* with its embedding as a new entry of the memory graph; a following
\* Cortex.recall(query, top_k) with top_k >= 1 completes without error and
\* returns the metadata of the top_k matching entries.
C23_RememberThenRecall ==
    /\ last.op = "remember" =>
           /\ last.error = ""
           /\ nodes # <<>>
           /\ nodes[Len(nodes)].concept = last.out[1]
           /\ nodes[Len(nodes)].embedding = EmbedQuery(last.out[1])
    /\ (last.op = "recall" /\ last.k >= 1) =>
           /\ last.error = ""
           /\ Len(last.out) <= last.k
           /\ Len(last.out) < last.k => Len(last.out) = Len(nodes)
           /\ \A i \in 1..Len(last.out) : \E j \in 1..Len(nodes) : nodes[j].metadata = last.out[i]

\* C24: with decay enabled every entry of the entry list has a registered
\* timestamp in every reachable state; a store of a content that is already
\* in the list yields a second entry of that content, both entries share
\* the one timestamp of the content, and the store sets it to the time of
\* the call, so the freshness of the earlier entry is 1.0 again as well.
C24_DuplicatesShareTimestamp ==
    [][/\ decay => \A i \in 1..Len(nodes) : nodes[i].concept \in DOMAIN memory_times
       /\ decay' => \A i \in 1..Len(nodes') : nodes'[i].concept \in DOMAIN memory_times'
       /\ (/\ decay
           /\ last'.op = "store"
           /\ clock' = clock
           /\ Len(nodes') = Len(nodes) + 1
           /\ nodes'[Len(nodes')].concept \in NodeConcepts(nodes)) =>
              LET c == nodes'[Len(nodes')].concept
              IN  /\ Cardinality({i \in 1..Len(nodes') : nodes'[i].concept = c}) >= 2
                  /\ memory_times'[c] = clock
                  /\ Strength(memory_times', c, 0) = StrengthScale]_vars

\* a content stored a second time at a later time than its first entry:
\* the entry stored in between still carries the earlier time
C24_Witness ==
    /\ decay
    /\ last.op = "store"
    /\ Len(nodes) = 3
    /\ nodes[1].concept = nodes[3].concept
    /\ nodes[2].concept # nodes[1].concept
    /\ memory_times[nodes[2].concept] < clock
    /\ memory_times[nodes[1].concept] = clock

====
